---- MODULE Spec2Model ----
(***************************************************************************)
(* btleplug: the adapter manager (src/api/adapter_manager.rs) and the      *)
(* WinRT peripheral (src/winrtble/peripheral.rs).                          *)
(*                                                                         *)
(* Threads call the operations of one AdapterManager (all its clones share *)
(* the same Arc'ed fields) and of one Peripheral "p1" (address "a1").      *)
(* An operation that touches shared state more than once is a sequence of  *)
(* steps, one per access of a lock, atomic or DashMap; pc[t] is the        *)
(* position of thread t and frame[t] holds its locals.                     *)
(***************************************************************************)
EXTENDS Integers, Sequences, FiniteSets, TLC

\* ------------------------------------------------------------------ bounds
\* New operations start only while every event queue is shorter than this.
MaxQueue == 2
\* Advertisement reports handed to update_properties.
MaxReports == 2
\* BLEDevice objects created by connect().
MaxConnects == 1
\* Values published on the notification channel.
MaxNotifications == 18

\* ----------------------------------------------------------------- domains
Threads == {"t1", "t2"}
Addrs == {"a1", "a2"}
None == "None"

\* An Option over integers: <<>> for None, <<v>> for Some(v).
Some(v) == <<v>>
Nothing == <<>>

\* Peripheral objects and the address each reports (Peripheral::address).
\* "p1" is the Peripheral whose state is modelled; "p3" is another object
\* for the same device.
PeripheralIds == {"p1", "p2", "p3"}

address(p) == CASE p = "p1" -> "a1" [] p = "p2" -> "a2" [] OTHER -> "a1"

StreamIds == {1, 2}

VARIABLES
    pc, frame, last,
    \* AdapterManager
    peripherals, chan, event_receiver_slot, receiver, poisoned,
    async_senders, streamQ, streamAlive,
    receiver_called, receivers_returned, evicted,
    \* Peripheral p1: advertised state
    local_name, last_tx_power_level, latest_manufacturer_data,
    latest_service_data, services, discovery_count, lockHolder,
    merged_lists, carried_manufacturer_data, reports_done,
    \* Peripheral p1: connection and GATT
    device, connected, ble_characteristics, devices_created, device_guard,
    \* Peripheral p1: value notifications
    value_handlers, notif_sent, rx

threadVars == <<pc, frame, last>>
\* the AdapterManager but for the poisoned locks
busRest == <<peripherals, chan, event_receiver_slot, receiver,
             async_senders, streamQ, streamAlive,
             receiver_called, receivers_returned, evicted>>
busVars == <<busRest, poisoned>>
\* the advertised properties
propVars == <<local_name, last_tx_power_level, latest_manufacturer_data,
              latest_service_data, services, discovery_count,
              merged_lists, carried_manufacturer_data>>
advVars == <<propVars, lockHolder, reports_done>>
gattRest == <<device, connected, ble_characteristics, devices_created>>
gattVars == <<gattRest, device_guard>>
\* what a panic changes
panicVars == <<pc, frame, last, poisoned, lockHolder, reports_done, device_guard>>
notifVars == <<value_handlers, notif_sent, rx>>
vars == <<threadVars, busVars, advVars, gattVars, notifVars>>

\* ------------------------------------------------------------------ events
CentralEvent(type, addr, data) == [type |-> type, address |-> addr, data |-> data]

NoEvent == CentralEvent("none", "none", <<>>)

\* The events a caller hands to emit directly.
DirectEvents ==
    { CentralEvent("DeviceDiscovered", "a1", <<>>),
      CentralEvent("DeviceDisconnected", "a1", <<>>),
      CentralEvent("DeviceLost", "a2", <<>>) }

\* ------------------------------------------------- PeripheralProperties
\* The advertised fields of PeripheralProperties (address and address_type
\* never change).
Snapshot(name, tx, mfr, sd, sv, count) ==
    [local_name |-> name, tx_power_level |-> tx, manufacturer_data |-> mfr,
     service_data |-> sd, services |-> sv, discovery_count |-> count]

\* The fields of a Peripheral just made by Peripheral::new.
NoSnap == Snapshot(None, Nothing, <<>>, <<>>, {}, 0)

\* The advertised state as it is stored now.
Stored ==
    Snapshot(local_name, last_tx_power_level, latest_manufacturer_data,
             latest_service_data, services, discovery_count)

\* ---------------------------------------------------------- thread frames
NoFrame == [op |-> "none", ev |-> NoEvent, rpc |-> "idle",
            addr |-> "none", p |-> "none", list |-> <<>>,
            dev |-> 0, uuid |-> "none", snap |-> NoSnap, seen |-> <<>>]

\* The outcome of the call that returned (or panicked) most recently.
\* io: whether the call reached the GATT transport.
RetGatt(op, val, arg, io) == [op |-> op, val |-> val, arg |-> arg, io |-> io]

Ret(op, val, arg) == RetGatt(op, val, arg, FALSE)

NoRet == Ret("none", "none", "none")

\* The std locks (RwLock) thread t holds; a panic poisons them.
Locks == {"latest_manufacturer_data", "latest_service_data", "services"}

HeldBy(t) == {l \in Locks : lockHolder[l] = t}

QueuesHaveRoom ==
    /\ Len(chan) < MaxQueue
    /\ \A s \in StreamIds : Len(streamQ[s]) < MaxQueue

\* A panic unwinds thread t out of its call: the guards it holds are dropped
\* while panicking, which poisons their locks.
Panic(t, extra) ==
    /\ pc' = [pc EXCEPT ![t] = "idle"]
    /\ last' = Ret(frame[t].op, "panic", "none")
    /\ frame' = [frame EXCEPT ![t] = NoFrame]
    /\ poisoned' = poisoned \cup extra \cup HeldBy(t)
    /\ lockHolder' = [l \in Locks |-> IF lockHolder[l] = t THEN None ELSE lockHolder[l]]
    /\ reports_done' = IF frame[t].op = "update_properties"
                       THEN reports_done + 1 ELSE reports_done
    /\ device_guard' = IF device_guard = t THEN None ELSE device_guard

\* Readers of the notification channel: not attached, nothing yielded.
NotifReaders == {1, 2}
NoReader == [alive |-> FALSE, next |-> 0, got |-> 0]

\* ------------------------------------------------------------------- Init
Init ==
    /\ pc = [t \in Threads |-> "idle"]
    /\ frame = [t \in Threads |-> NoFrame]
    /\ last = NoRet
    /\ peripherals = [a \in Addrs |-> None]
    /\ chan = <<>>
    /\ event_receiver_slot = "Some"
    /\ receiver = "alive"
    /\ poisoned = {}
    /\ async_senders = <<>>
    /\ streamQ = [s \in StreamIds |-> <<>>]
    /\ streamAlive = [s \in StreamIds |-> FALSE]
    /\ receiver_called = FALSE
    /\ receivers_returned = 0
    /\ evicted = {}
    /\ local_name = None
    /\ last_tx_power_level = Nothing
    /\ latest_manufacturer_data = <<>>
    /\ latest_service_data = <<>>
    /\ services = {}
    /\ discovery_count = 0
    /\ lockHolder = [l \in Locks |-> None]
    /\ merged_lists = {}
    /\ carried_manufacturer_data = <<>>
    /\ reports_done = 0
    /\ device = Nothing
    /\ connected = FALSE
    /\ ble_characteristics = <<>>
    /\ devices_created = 0
    /\ device_guard = None
    /\ value_handlers = {}
    /\ notif_sent = 0
    /\ rx = [r \in NotifReaders |-> NoReader]

\* An emit that forgets the DeviceLost arm.
remove_disconnected_only(ev, table) ==
    IF ev.type = "DeviceDisconnected"
    THEN [table EXCEPT ![ev.address] = None]
    ELSE table

\* ------------------------------------------------------ AdapterManager::emit
\* The registry side effect of an event: DashMap::remove for the two
\* departure events, nothing for the others.
remove_departed(ev, table) ==
    IF ev.type \in {"DeviceDisconnected", "DeviceLost"}
    THEN [table EXCEPT ![ev.address] = None]
    ELSE table

\* A bounded channel: send waits while the queue is full.
send_ready_bounded(queue) == Len(queue) < MaxQueue

\* std::sync::mpsc::channel() is unbounded: send never waits for room.
send_ready(queue) == TRUE

\* Sender::send fails exactly when the Receiver has been dropped.
send_is_ok == receiver = "alive"

InSeq(x, seq) == \E i \in 1..Len(seq) : seq[i] = x

\* retain with a closure that keeps every sender, failed or not.
retain_every_sender(senders) == senders

\* Vec::retain over async_senders: unbounded_send succeeds on a subscriber
\* whose receiving end is alive, and a failed sender is removed.
retain_senders(senders) == SelectSeq(senders, LAMBDA s : streamAlive[s])

\* Enter emit(ev) from thread t; the thread continues at rpc when emit returns.
EnterEmit(t, op, ev, rpc) ==
    /\ pc' = [pc EXCEPT ![t] = "emit_remove"]
    /\ frame' = [frame EXCEPT ![t].op = op, ![t].ev = ev, ![t].rpc = rpc]

emit_call(t, ev) ==
    /\ pc[t] = "idle"
    /\ QueuesHaveRoom
    /\ EnterEmit(t, "emit", ev, "idle")
    /\ UNCHANGED <<last, busVars, advVars, gattVars>>
    /\ UNCHANGED notifVars

emit_remove(t) ==
    /\ pc[t] = "emit_remove"
    /\ peripherals' = remove_departed(frame[t].ev, peripherals)
    /\ evicted' = evicted \cup {a \in Addrs : peripherals[a] # None /\ peripherals'[a] = None}
    /\ pc' = [pc EXCEPT ![t] = "emit_send"]
    /\ UNCHANGED <<frame, last, chan, event_receiver_slot, receiver, poisoned,
                   async_senders, streamQ, streamAlive, receiver_called,
                   receivers_returned, advVars, gattVars>>
    /\ UNCHANGED notifVars

emit_send(t) ==
    /\ pc[t] = "emit_send"
    /\ send_ready(chan)
    /\ IF "event_sender" \in poisoned
       THEN \* lock().unwrap() on a poisoned Mutex
            /\ Panic(t, {})
            /\ UNCHANGED chan
       ELSE IF ~send_is_ok
       THEN \* send(..).unwrap() on Err, the MutexGuard still alive
            /\ Panic(t, {"event_sender"})
            /\ UNCHANGED chan
       ELSE /\ chan' = Append(chan, frame[t].ev)
            /\ pc' = [pc EXCEPT ![t] = "emit_broadcast"]
            /\ UNCHANGED <<frame, last, poisoned, lockHolder, reports_done, device_guard>>
    /\ UNCHANGED <<peripherals, event_receiver_slot, receiver, async_senders,
                   streamQ, streamAlive, receiver_called, receivers_returned, evicted,
                   propVars, gattRest>>
    /\ UNCHANGED notifVars

emit_broadcast(t) ==
    /\ pc[t] = "emit_broadcast"
    /\ streamQ' = [s \in StreamIds |->
                     IF InSeq(s, async_senders) /\ streamAlive[s]
                     THEN Append(streamQ[s], frame[t].ev)
                     ELSE streamQ[s]]
    /\ async_senders' = retain_senders(async_senders)
    /\ pc' = [pc EXCEPT ![t] = frame[t].rpc]
    /\ IF frame[t].rpc = "idle"
       THEN /\ last' = Ret(frame[t].op, "ok", "none")
            /\ frame' = [frame EXCEPT ![t] = NoFrame]
       ELSE /\ frame' = [frame EXCEPT ![t].ev = NoEvent, ![t].rpc = "idle"]
            /\ UNCHANGED last
    /\ UNCHANGED <<peripherals, chan, event_receiver_slot, receiver, poisoned,
                   streamAlive, receiver_called, receivers_returned, evicted,
                   advVars, gattVars>>
    /\ UNCHANGED notifVars

\* A clone of the slot's value, the slot left as it was.
take_cloned(slot) == [out |-> slot, left |-> slot]

\* -------------------------------------------- AdapterManager::event_receiver
\* Option::take under the Mutex: the value held, and None left behind.
take(slot) == [out |-> slot, left |-> "None"]

event_receiver(t) ==
    /\ pc[t] = "idle"
    /\ event_receiver_slot' = take(event_receiver_slot).left
    /\ last' = Ret("event_receiver", take(event_receiver_slot).out, "none")
    /\ receiver_called' = TRUE
    /\ receivers_returned' =
         IF take(event_receiver_slot).out = "Some"
         THEN receivers_returned + 1 ELSE receivers_returned
    /\ UNCHANGED <<pc, frame, peripherals, chan, receiver, poisoned,
                   async_senders, streamQ, streamAlive, evicted, advVars,
                   gattVars>>
    /\ UNCHANGED notifVars

\* The caller that obtained the Receiver drains it ...
receiver_recv ==
    /\ receivers_returned > 0
    /\ receiver = "alive"
    /\ chan # <<>>
    /\ chan' = Tail(chan)
    /\ UNCHANGED <<threadVars, peripherals, event_receiver_slot, receiver,
                   poisoned, async_senders, streamQ, streamAlive,
                   receiver_called, receivers_returned, evicted, advVars, gattVars>>
    /\ UNCHANGED notifVars

\* ... or drops it, and the queued events with it.
receiver_drop ==
    /\ receivers_returned > 0
    /\ receiver = "alive"
    /\ receiver' = "dropped"
    /\ chan' = <<>>
    /\ UNCHANGED <<threadVars, peripherals, event_receiver_slot, poisoned,
                   async_senders, streamQ, streamAlive, receiver_called,
                   receivers_returned, evicted, advVars, gattVars>>
    /\ UNCHANGED notifVars

\* ---------------------------------------------- AdapterManager::event_stream
\* mpsc::unbounded(): the next unused subscriber, its sender pushed.
event_stream(t) ==
    /\ pc[t] = "idle"
    /\ \E s \in StreamIds :
         /\ ~streamAlive[s]
         /\ ~InSeq(s, async_senders)
         /\ \A s2 \in StreamIds :
              (s2 < s) => (streamAlive[s2] \/ InSeq(s2, async_senders))
         /\ async_senders' = Append(async_senders, s)
         /\ streamAlive' = [streamAlive EXCEPT ![s] = TRUE]
         /\ last' = Ret("event_stream", "ok", "none")
    /\ UNCHANGED <<pc, frame, peripherals, chan, event_receiver_slot, receiver,
                   poisoned, streamQ, receiver_called, receivers_returned, evicted,
                   advVars, gattVars>>
    /\ UNCHANGED notifVars

\* A broadcast subscriber polls its stream ...
stream_next(s) ==
    /\ streamAlive[s]
    /\ streamQ[s] # <<>>
    /\ streamQ' = [streamQ EXCEPT ![s] = Tail(streamQ[s])]
    /\ UNCHANGED <<threadVars, peripherals, chan, event_receiver_slot, receiver,
                   poisoned, async_senders, streamAlive, receiver_called,
                   receivers_returned, evicted, advVars, gattVars>>
    /\ UNCHANGED notifVars

\* ... or drops it.
stream_drop(s) ==
    /\ streamAlive[s]
    /\ streamAlive' = [streamAlive EXCEPT ![s] = FALSE]
    /\ streamQ' = [streamQ EXCEPT ![s] = <<>>]
    /\ UNCHANGED <<threadVars, peripherals, chan, event_receiver_slot, receiver,
                   poisoned, async_senders, receiver_called,
                   receivers_returned, evicted, advVars, gattVars>>
    /\ UNCHANGED notifVars

\* ------------------------------------------- registry lookups and insertion
has_peripheral(a) == peripherals[a] # None

peripheral(a) == peripherals[a]

\* add_peripheral without its second assertion.
add_asserts_key_only(table, a, p) == table[a] = None

\* The two assertions of add_peripheral.
add_asserts_hold(table, a, p) == table[a] = None /\ address(p) = a

add_peripheral_call(t) ==
    /\ pc[t] = "idle"
    /\ \E a \in Addrs, p \in PeripheralIds :
         frame' = [frame EXCEPT ![t].op = "add_peripheral", ![t].addr = a, ![t].p = p]
    /\ pc' = [pc EXCEPT ![t] = "add_assert"]
    /\ UNCHANGED <<last, busVars, advVars, gattVars>>
    /\ UNCHANGED notifVars

add_peripheral_assert(t) ==
    /\ pc[t] = "add_assert"
    /\ IF add_asserts_hold(peripherals, frame[t].addr, frame[t].p)
       THEN /\ pc' = [pc EXCEPT ![t] = "add_insert"]
            /\ UNCHANGED <<frame, last, poisoned, lockHolder, reports_done, device_guard>>
       ELSE Panic(t, {})
    /\ UNCHANGED <<busRest, propVars, gattRest>>
    /\ UNCHANGED notifVars

add_peripheral_insert(t) ==
    /\ pc[t] = "add_insert"
    /\ peripherals' = [peripherals EXCEPT ![frame[t].addr] = frame[t].p]
    /\ evicted' = evicted \ {frame[t].addr}
    /\ pc' = [pc EXCEPT ![t] = "idle"]
    /\ last' = Ret("add_peripheral", "ok", "none")
    /\ frame' = [frame EXCEPT ![t] = NoFrame]
    /\ UNCHANGED <<chan, event_receiver_slot, receiver, poisoned,
                   async_senders, streamQ, streamAlive, receiver_called,
                   receivers_returned, advVars, gattVars>>
    /\ UNCHANGED notifVars

\* ------------------------------------------- Peripheral::update_properties
\* What an accessor of the platform's advertisement object returns.
Ok(v) == [ok |-> TRUE, v |-> v]
Err == [ok |-> FALSE, v |-> <<>>]

\* advertisement.LocalName()
LocalNameResults == {[ok |-> FALSE, v |-> ""], [ok |-> TRUE, v |-> ""],
                     [ok |-> TRUE, v |-> "n1"]}

\* advertisement.ManufacturerData(): entries <<company id, data bytes>>
ManufacturerDataResults ==
    {Err, Ok(<<>>), Ok(<< <<76, <<1>>>>, <<76, <<2>>>>, <<89, <<3>>>> >>)}

\* advertisement_data_type: the three service-data section types
SERVICE_DATA_16_BIT_UUID == 22
SERVICE_DATA_32_BIT_UUID == 32
SERVICE_DATA_128_BIT_UUID == 33

Section(ty, data) == [data_type |-> ty, data |-> data]

FlagsSection == Section(1, <<6>>)

\* advertisement.DataSections()
DataSectionsResults ==
    {Err, Ok(<<FlagsSection>>),
     Ok(<<FlagsSection, Section(SERVICE_DATA_16_BIT_UUID, <<13, 24, 1, 2>>),
          Section(SERVICE_DATA_32_BIT_UUID, <<15, 24, 0, 0, 7>>)>>)}

\* Windows GUIDs of two services (0x180D, 0x180F on the Bluetooth base UUID)
Guid(d1) == [data1 |-> d1, data2 |-> 0, data3 |-> 4096,
             data4 |-> <<128, 0, 0, 128, 95, 155, 52, 251>>]

HeartRate == Guid(6157)
Battery == Guid(6159)

\* advertisement.ServiceUuids()
ServiceUuidsResults ==
    {Err, Ok(<<>>), Ok(<<HeartRate>>), Ok(<<Battery>>), Ok(<<HeartRate, Battery>>)}

\* args.RawSignalStrengthInDBm(): an i16
SignalResults == {[ok |-> FALSE, v |-> 0], Ok(200)}

\* A Uuid is its 16 bytes.
be16(v) == <<(v \div 256) % 256, v % 256>>
be32(v) == be16(v \div 65536) \o be16(v % 65536)

\* utils::to_uuid: the GUID's fields, big-endian.
to_uuid(g) == be32(g.data1) \o be16(g.data2) \o be16(g.data3) \o g.data4

\* bleuuid: the 16- or 32-bit value placed on the Bluetooth base UUID.
uuid_from_u32(v) == be32(v) \o <<0, 0, 16, 0, 128, 0, 0, 128, 95, 155, 52, 251>>
uuid_from_u16(v) == uuid_from_u32(v)

\* u16::from_le_bytes, u32::from_le_bytes
from_le_bytes(b) ==
    IF Len(b) = 2 THEN b[1] + 256 * b[2]
    ELSE b[1] + 256 * b[2] + 65536 * b[3] + 16777216 * b[4]

\* rssi as i8: the low eight bits, as a signed byte
as_i8(v) == ((v + 128) % 256) - 128

\* A counter that only records that some report was seen.
fetch_add_once(c) == IF c = 0 THEN 1 ELSE c

\* AtomicU32::fetch_add(1) (the counter wraps at 2^32, far beyond MaxReports)
fetch_add(c) == c + 1

\* HashMap insert
MapInsert(m, k, v) == [x \in DOMAIN m \cup {k} |-> IF x = k THEN v ELSE m[x]]

\* Iterator::collect into a HashMap: a later entry replaces an earlier one
\* with the same key.
RECURSIVE collect(_)
collect(entries) ==
    IF entries = <<>> THEN <<>>
    ELSE LET e == entries[Len(entries)]
         IN MapInsert(collect(SubSeq(entries, 1, Len(entries) - 1)), e[1], e[2])

\* The stored manufacturer data after a report whose ManufacturerData() is
\* Ok(entries).
manufacturer_data_after(entries, stored) == collect(entries)

ServiceDataTypes ==
    {SERVICE_DATA_16_BIT_UUID, SERVICE_DATA_32_BIT_UUID, SERVICE_DATA_128_BIT_UUID}

found_service_data(sections) ==
    \E i \in 1..Len(sections) : sections[i].data_type \in ServiceDataTypes

\* split_at(n) of one section and the UUID of its prefix
PrefixLen(ty) ==
    IF ty = SERVICE_DATA_16_BIT_UUID THEN 2
    ELSE IF ty = SERVICE_DATA_32_BIT_UUID THEN 4 ELSE 16

decode_section(d) ==
    LET n == PrefixLen(d.data_type)
        prefix == SubSeq(d.data, 1, n)
        payload == SubSeq(d.data, n + 1, Len(d.data))
    IN  IF d.data_type = SERVICE_DATA_16_BIT_UUID
        THEN <<uuid_from_u16(from_le_bytes(prefix)), payload>>
        ELSE IF d.data_type = SERVICE_DATA_32_BIT_UUID
        THEN <<uuid_from_u32(from_le_bytes(prefix)), payload>>
        ELSE <<prefix, payload>>

\* filter_map over the sections, collected into a HashMap
decode_service_data(sections) ==
    collect([i \in 1..Len(SelectSeq(sections, LAMBDA d : d.data_type \in ServiceDataTypes)) |->
               decode_section(SelectSeq(sections, LAMBDA d : d.data_type \in ServiceDataTypes)[i])])

Uuids(list) == {to_uuid(list[i]) : i \in 1..Len(list)}

\* The read-only pass: is some advertised UUID not stored yet?
found_new_service(list, stored) ==
    \E i \in 1..Len(list) : to_uuid(list[i]) \notin stored

\* A write pass that stores the advertised list instead of merging it.
insert_all_replacing(list, stored) == Uuids(list)

\* The write pass: every advertised UUID inserted into the stored set.
insert_all(list, stored) == stored \cup Uuids(list)

\* The stored tx power after a report.
tx_power_after(r, stored) == IF r.ok THEN Some(as_i8(r.v)) ELSE Nothing

Release(t, l) == lockHolder' = [lockHolder EXCEPT ![l] = None]

update_properties_call(t) ==
    /\ pc[t] = "idle"
    /\ discovery_count < MaxReports
    /\ discovery_count' = fetch_add(discovery_count)
    /\ pc' = [pc EXCEPT ![t] = "up_name"]
    /\ frame' = [frame EXCEPT ![t].op = "update_properties"]
    /\ UNCHANGED <<last, busVars, local_name, last_tx_power_level,
                   latest_manufacturer_data, latest_service_data, services,
                   merged_lists, carried_manufacturer_data, lockHolder,
                   reports_done, gattVars>>
    /\ UNCHANGED notifVars

up_local_name(t) ==
    /\ pc[t] = "up_name"
    /\ \E r \in LocalNameResults :
         local_name' = IF r.ok /\ r.v # "" THEN r.v ELSE local_name
    /\ pc' = [pc EXCEPT ![t] = "up_mfr"]
    /\ UNCHANGED <<frame, last, busVars, last_tx_power_level,
                   latest_manufacturer_data, latest_service_data, services,
                   discovery_count, merged_lists, carried_manufacturer_data,
                   lockHolder, reports_done, gattVars>>
    /\ UNCHANGED notifVars

up_manufacturer_data(t) ==
    /\ pc[t] = "up_mfr"
    /\ \E r \in ManufacturerDataResults :
         IF ~r.ok
         THEN /\ pc' = [pc EXCEPT ![t] = "up_sd"]
              /\ UNCHANGED <<frame, last, poisoned, lockHolder, reports_done,
                             device_guard,
                             latest_manufacturer_data, carried_manufacturer_data>>
         ELSE /\ lockHolder["latest_manufacturer_data"] = None
              /\ IF "latest_manufacturer_data" \in poisoned
                 THEN /\ Panic(t, {})
                      /\ UNCHANGED <<latest_manufacturer_data,
                                     carried_manufacturer_data>>
                 ELSE /\ latest_manufacturer_data' =
                           manufacturer_data_after(r.v, latest_manufacturer_data)
                      /\ carried_manufacturer_data' =
                           IF r.v # <<>> THEN collect(r.v)
                           ELSE carried_manufacturer_data
                      /\ lockHolder' =
                           [lockHolder EXCEPT !["latest_manufacturer_data"] = t]
                      /\ EnterEmit(t, "update_properties",
                                   CentralEvent("ManufacturerDataAdvertisement", "a1",
                                                latest_manufacturer_data'),
                                   "up_mfr_end")
                      /\ UNCHANGED <<last, poisoned, reports_done, device_guard>>
    /\ UNCHANGED <<busRest, local_name, last_tx_power_level,
                   latest_service_data, services, discovery_count,
                   merged_lists, gattRest>>
    /\ UNCHANGED notifVars

up_manufacturer_data_end(t) ==
    /\ pc[t] = "up_mfr_end"
    /\ Release(t, "latest_manufacturer_data")
    /\ pc' = [pc EXCEPT ![t] = "up_sd"]
    /\ UNCHANGED <<frame, last, busVars, propVars, reports_done, gattVars>>
    /\ UNCHANGED notifVars

up_service_data(t) ==
    /\ pc[t] = "up_sd"
    /\ \E r \in DataSectionsResults :
         IF ~r.ok \/ ~found_service_data(r.v)
         THEN /\ pc' = [pc EXCEPT ![t] = "up_svc"]
              /\ UNCHANGED <<frame, last, poisoned, lockHolder, reports_done,
                             device_guard, latest_service_data>>
         ELSE /\ lockHolder["latest_service_data"] = None
              /\ IF "latest_service_data" \in poisoned
                 THEN /\ Panic(t, {})
                      /\ UNCHANGED latest_service_data
                 ELSE /\ latest_service_data' = decode_service_data(r.v)
                      /\ lockHolder' =
                           [lockHolder EXCEPT !["latest_service_data"] = t]
                      /\ EnterEmit(t, "update_properties",
                                   CentralEvent("ServiceDataAdvertisement", "a1",
                                                latest_service_data'),
                                   "up_sd_end")
                      /\ UNCHANGED <<last, poisoned, reports_done, device_guard>>
    /\ UNCHANGED <<busRest, local_name, last_tx_power_level,
                   latest_manufacturer_data, services, discovery_count,
                   merged_lists, carried_manufacturer_data, gattRest>>
    /\ UNCHANGED notifVars

up_service_data_end(t) ==
    /\ pc[t] = "up_sd_end"
    /\ Release(t, "latest_service_data")
    /\ pc' = [pc EXCEPT ![t] = "up_svc"]
    /\ UNCHANGED <<frame, last, busVars, propVars, reports_done, gattVars>>
    /\ UNCHANGED notifVars

up_services_read(t) ==
    /\ pc[t] = "up_svc"
    /\ \E r \in ServiceUuidsResults :
         IF ~r.ok
         THEN /\ pc' = [pc EXCEPT ![t] = "up_tx"]
              /\ UNCHANGED <<frame, last, poisoned, lockHolder, reports_done,
                             device_guard, merged_lists>>
         ELSE /\ lockHolder["services"] = None
              /\ IF "services" \in poisoned
                 THEN /\ Panic(t, {})
                      /\ UNCHANGED merged_lists
                 ELSE IF found_new_service(r.v, services)
                 THEN /\ pc' = [pc EXCEPT ![t] = "up_svc_write"]
                      /\ frame' = [frame EXCEPT ![t].list = r.v]
                      /\ UNCHANGED <<last, poisoned, lockHolder, reports_done,
                                     device_guard, merged_lists>>
                 ELSE \* nothing new: this report's list is dealt with
                      /\ pc' = [pc EXCEPT ![t] = "up_tx"]
                      /\ merged_lists' = merged_lists \cup Uuids(r.v)
                      /\ UNCHANGED <<frame, last, poisoned, lockHolder,
                                     reports_done, device_guard>>
    /\ UNCHANGED <<busRest, local_name, last_tx_power_level,
                   latest_manufacturer_data, latest_service_data, services,
                   discovery_count, carried_manufacturer_data, gattRest>>
    /\ UNCHANGED notifVars

\* An event that carries the services of the report alone.
report_payload(list, guarded) == Uuids(list)

\* services_guard.iter().map(|uuid| *uuid).collect(): the payload of the
\* event is the whole set under the write guard.
services_payload(list, guarded) == guarded

up_services_write(t) ==
    /\ pc[t] = "up_svc_write"
    /\ lockHolder["services"] = None
    /\ IF "services" \in poisoned
       THEN /\ Panic(t, {})
            /\ UNCHANGED <<services, merged_lists>>
       ELSE /\ services' = insert_all(frame[t].list, services)
            /\ merged_lists' = merged_lists \cup Uuids(frame[t].list)
            /\ lockHolder' = [lockHolder EXCEPT !["services"] = t]
            /\ pc' = [pc EXCEPT ![t] = "emit_remove"]
            /\ frame' = [frame EXCEPT
                           ![t].ev = CentralEvent("ServicesAdvertisement", "a1",
                                                  services_payload(frame[t].list,
                                                                   services')),
                           ![t].rpc = "up_svc_end",
                           ![t].list = <<>>]
            /\ UNCHANGED <<last, poisoned, reports_done, device_guard>>
    /\ UNCHANGED <<busRest, local_name, last_tx_power_level,
                   latest_manufacturer_data, latest_service_data,
                   discovery_count, carried_manufacturer_data, gattRest>>
    /\ UNCHANGED notifVars

up_services_end(t) ==
    /\ pc[t] = "up_svc_end"
    /\ Release(t, "services")
    /\ pc' = [pc EXCEPT ![t] = "up_tx"]
    /\ UNCHANGED <<frame, last, busVars, propVars, reports_done, gattVars>>
    /\ UNCHANGED notifVars

\* No report is half-applied, but for the one thread t may be processing.
NoReportBut(t) == \A x \in Threads \ {t} : frame[x].op # "update_properties"

\* The last step of a report; a properties() call in progress has, in seen,
\* the whole states the peripheral went through since the call began.
up_tx_power(t) ==
    /\ pc[t] = "up_tx"
    /\ \E r \in SignalResults :
         last_tx_power_level' = tx_power_after(r, last_tx_power_level)
    /\ pc' = [pc EXCEPT ![t] = "idle"]
    /\ frame' = [x \in Threads |->
                   IF x = t THEN NoFrame
                   ELSE IF frame[x].op = "properties" /\ NoReportBut(t)
                   THEN [frame[x] EXCEPT !.seen =
                           Append(@, [Stored EXCEPT !.tx_power_level =
                                                      last_tx_power_level'])]
                   ELSE frame[x]]
    /\ last' = Ret("update_properties", "ok", "none")
    /\ reports_done' = reports_done + 1
    /\ UNCHANGED <<busVars, local_name, latest_manufacturer_data,
                   latest_service_data, services, discovery_count,
                   merged_lists, carried_manufacturer_data, lockHolder,
                   gattVars>>
    /\ UNCHANGED notifVars

\* --------------------------------------------------- Peripheral::properties
\* derive_properties_compat builds the PeripheralProperties field by field,
\* each field read under its own lock, the lock released before the next.
properties_call(t) ==
    /\ pc[t] = "idle"
    /\ pc' = [pc EXCEPT ![t] = "pr_name"]
    /\ frame' = [frame EXCEPT ![t].op = "properties",
                              ![t].seen = IF NoReportBut(t) THEN <<Stored>>
                                          ELSE <<>>]
    /\ UNCHANGED <<last, busVars, advVars, gattVars, notifVars>>

\* self.local_name()
pr_local_name(t) ==
    /\ pc[t] = "pr_name"
    /\ frame' = [frame EXCEPT ![t].snap.local_name = local_name]
    /\ pc' = [pc EXCEPT ![t] = "pr_tx"]
    /\ UNCHANGED <<last, busVars, advVars, gattVars, notifVars>>

\* self.last_tx_power_level()
pr_tx_power_level(t) ==
    /\ pc[t] = "pr_tx"
    /\ frame' = [frame EXCEPT ![t].snap.tx_power_level = last_tx_power_level]
    /\ pc' = [pc EXCEPT ![t] = "pr_mfr"]
    /\ UNCHANGED <<last, busVars, advVars, gattVars, notifVars>>

\* A read() of lock l, waiting while a writer holds it; unwrap panics on a
\* poisoned lock.
ReadLocked(t, l, field, value, next) ==
    /\ lockHolder[l] = None
    /\ IF l \in poisoned
       THEN Panic(t, {})
       ELSE /\ frame' = [frame EXCEPT ![t].snap[field] = value]
            /\ pc' = [pc EXCEPT ![t] = next]
            /\ UNCHANGED <<last, poisoned, lockHolder, reports_done, device_guard>>
    /\ UNCHANGED <<busRest, propVars, gattRest, notifVars>>

\* self.shared.latest_manufacturer_data.read().unwrap().clone()
pr_manufacturer_data(t) ==
    /\ pc[t] = "pr_mfr"
    /\ ReadLocked(t, "latest_manufacturer_data", "manufacturer_data",
                  latest_manufacturer_data, "pr_sd")

\* self.shared.latest_service_data.read().unwrap().clone()
pr_service_data(t) ==
    /\ pc[t] = "pr_sd"
    /\ ReadLocked(t, "latest_service_data", "service_data",
                  latest_service_data, "pr_svc")

\* self.services()
pr_services(t) ==
    /\ pc[t] = "pr_svc"
    /\ ReadLocked(t, "services", "services", services, "pr_count")

\* The snapshot properties() hands back once discovery_count is loaded.
properties_result(t) == [frame[t].snap EXCEPT !.discovery_count = discovery_count]

\* self.shared.discovery_count.load(..), and the struct is returned
pr_discovery_count(t) ==
    /\ pc[t] = "pr_count"
    /\ pc' = [pc EXCEPT ![t] = "idle"]
    /\ frame' = [frame EXCEPT ![t] = NoFrame]
    /\ last' = Ret("properties", "Some", "none")
    /\ UNCHANGED <<busVars, advVars, gattVars, notifVars>>

\* ------------------------------------------------ connection and GATT (p1)
CharUuids == {"c1", "c2"}
GattOps == {"read", "write", "subscribe", "unsubscribe"}

\* device.discover_characteristics(): the platform's answer
\* as (uuid, GattCharacteristic object) pairs, the objects new at each answer
DiscoverResults ==
    { Err,
      Ok(<< <<"c1", "g1">> >>),
      Ok(<< <<"c1", "g2">>, <<"c2", "g2">> >>) }

\* What BLECharacteristic::{read_value, write_value, subscribe, unsubscribe}
\* may answer.
TransportResults == {"Ok", "TransportError"}

\* Return from the call of thread t.
Return(t, r) ==
    /\ pc' = [pc EXCEPT ![t] = "idle"]
    /\ frame' = [frame EXCEPT ![t] = NoFrame]
    /\ last' = r

\* BLEDevice objects that exist: the stored one and those connect() is
\* still working on.
LiveDevices ==
    {device[i] : i \in DOMAIN device}
        \cup {frame[t].dev : t \in {x \in Threads : frame[x].dev # 0}}

connect_call(t) ==
    /\ pc[t] = "idle"
    /\ devices_created + Cardinality({x \in Threads : pc[x] = "connect_new"})
         < MaxConnects
    /\ QueuesHaveRoom
    /\ pc' = [pc EXCEPT ![t] = "connect_new"]
    /\ frame' = [frame EXCEPT ![t].op = "connect"]
    /\ UNCHANGED <<last, busVars, advVars, gattVars>>
    /\ UNCHANGED notifVars

\* BLEDevice::new(..).await?
connect_new(t) ==
    /\ pc[t] = "connect_new"
    /\ \E ok \in BOOLEAN :
         IF ok
         THEN /\ devices_created' = devices_created + 1
              /\ frame' = [frame EXCEPT ![t].dev = devices_created + 1]
              /\ pc' = [pc EXCEPT ![t] = "connect_connect"]
              /\ UNCHANGED last
         ELSE /\ Return(t, Ret("connect", "TransportError", "none"))
              /\ UNCHANGED devices_created
    /\ UNCHANGED <<busVars, advVars, device, connected, ble_characteristics,
                   device_guard>>
    /\ UNCHANGED notifVars

\* device.connect().await?
connect_connect(t) ==
    /\ pc[t] = "connect_connect"
    /\ \E ok \in BOOLEAN :
         IF ok
         THEN /\ pc' = [pc EXCEPT ![t] = "connect_store"]
              /\ UNCHANGED <<frame, last>>
         ELSE Return(t, Ret("connect", "TransportError", "none"))
    /\ UNCHANGED <<busVars, advVars, gattVars>>
    /\ UNCHANGED notifVars

\* *d = Some(device), then emit(DeviceConnected) with the guard held
connect_store(t) ==
    /\ pc[t] = "connect_store"
    /\ device_guard = None
    /\ device_guard' = t
    /\ device' = Some(frame[t].dev)
    /\ pc' = [pc EXCEPT ![t] = "emit_remove"]
    /\ frame' = [frame EXCEPT ![t].ev = CentralEvent("DeviceConnected", "a1", <<>>),
                              ![t].rpc = "connect_end", ![t].dev = 0]
    /\ UNCHANGED <<last, busVars, advVars, connected, ble_characteristics,
                   devices_created>>
    /\ UNCHANGED notifVars

connect_end(t) ==
    /\ pc[t] = "connect_end"
    /\ device_guard' = None
    /\ Return(t, Ret("connect", "Ok", "none"))
    /\ UNCHANGED <<busVars, advVars, gattRest>>
    /\ UNCHANGED notifVars

\* The connection-status closure handed to BLEDevice::new, run by the
\* platform for a device that exists.
connection_status(t, is_connected) ==
    /\ pc[t] = "idle"
    /\ LiveDevices # {}
    /\ QueuesHaveRoom
    /\ connected' = is_connected
    /\ IF ~is_connected
       THEN EnterEmit(t, "connection_status",
                      CentralEvent("DeviceDisconnected", "a1", <<>>), "idle")
       ELSE UNCHANGED <<pc, frame>>
    /\ UNCHANGED <<last, busVars, advVars, device, ble_characteristics,
                   devices_created, device_guard>>
    /\ UNCHANGED notifVars

disconnect_call(t) ==
    /\ pc[t] = "idle"
    /\ QueuesHaveRoom
    /\ pc' = [pc EXCEPT ![t] = "disconnect"]
    /\ frame' = [frame EXCEPT ![t].op = "disconnect"]
    /\ UNCHANGED <<last, busVars, advVars, gattVars>>
    /\ UNCHANGED notifVars

\* *device = None, then emit(DeviceDisconnected) with the guard held
disconnect_lock(t) ==
    /\ pc[t] = "disconnect"
    /\ device_guard = None
    /\ device_guard' = t
    /\ device' = Nothing
    /\ EnterEmit(t, "disconnect",
                 CentralEvent("DeviceDisconnected", "a1", <<>>), "disconnect_end")
    /\ UNCHANGED <<last, busVars, advVars, connected, ble_characteristics,
                   devices_created>>
    /\ UNCHANGED notifVars

disconnect_end(t) ==
    /\ pc[t] = "disconnect_end"
    /\ device_guard' = None
    /\ Return(t, Ret("disconnect", "Ok", "none"))
    /\ UNCHANGED <<busVars, advVars, gattRest>>
    /\ UNCHANGED notifVars

\* DashMap::insert for each discovered characteristic: the newest object
\* takes the place of a cached one.
insert_each(list, cache) ==
    [u \in DOMAIN cache \cup {list[i][1] : i \in 1..Len(list)} |->
       IF \E i \in 1..Len(list) : list[i][1] = u
       THEN list[CHOOSE i \in 1..Len(list) :
                   /\ list[i][1] = u
                   /\ \A k \in (i + 1)..Len(list) : list[k][1] # u][2]
       ELSE cache[u]]

\* DashMap entry(uuid).or_insert_with for each discovered characteristic:
\* a cached UUID keeps its entry.
or_insert_all(list, cache) ==
    [u \in DOMAIN cache \cup {list[i][1] : i \in 1..Len(list)} |->
       IF u \in DOMAIN cache THEN cache[u]
       ELSE list[CHOOSE i \in 1..Len(list) :
                   /\ list[i][1] = u
                   /\ \A k \in 1..(i - 1) : list[k][1] # u][2]]

discover_characteristics_call(t) ==
    /\ pc[t] = "idle"
    /\ pc' = [pc EXCEPT ![t] = "discover"]
    /\ frame' = [frame EXCEPT ![t].op = "discover_characteristics"]
    /\ UNCHANGED <<last, busVars, advVars, gattVars>>
    /\ UNCHANGED notifVars

discover_characteristics_lock(t) ==
    /\ pc[t] = "discover"
    /\ device_guard = None
    /\ IF device = Nothing
       THEN /\ Return(t, Ret("discover_characteristics", "NotConnected", "none"))
            /\ UNCHANGED device_guard
       ELSE /\ device_guard' = t
            /\ pc' = [pc EXCEPT ![t] = "discover_await"]
            /\ UNCHANGED <<frame, last>>
    /\ UNCHANGED <<busVars, advVars, gattRest>>
    /\ UNCHANGED notifVars

discover_characteristics_await(t) ==
    /\ pc[t] = "discover_await"
    /\ device_guard' = None
    /\ \E r \in DiscoverResults :
         IF r.ok
         THEN /\ ble_characteristics' = or_insert_all(r.v, ble_characteristics)
              /\ Return(t, Ret("discover_characteristics", "Ok", "none"))
         ELSE /\ Return(t, Ret("discover_characteristics", "TransportError", "none"))
              /\ UNCHANGED ble_characteristics
    /\ UNCHANGED <<busVars, advVars, device, connected, devices_created>>
    /\ UNCHANGED notifVars

\* unsubscribe carrying the name pasted from subscribe.
not_supported_name_pasted(op) ==
    CASE op = "write" -> "write"
      [] op = "subscribe" -> "subscribe"
      [] op = "unsubscribe" -> "subscribe"
      [] op = "read" -> "read"

\* The operation name each method puts in Error::NotSupported.
not_supported_name(op) ==
    CASE op = "write" -> "write"
      [] op = "subscribe" -> "subscribe"
      [] op = "unsubscribe" -> "unsubscribe"
      [] op = "read" -> "read"

\* What read, write, subscribe and unsubscribe look at before they reach for
\* the transport: the characteristic cache, and nothing else.
reaches_transport(uuid) == uuid \in DOMAIN ble_characteristics

gatt_call(t, op, uuid) ==
    /\ pc[t] = "idle"
    /\ pc' = [pc EXCEPT ![t] = "gatt"]
    /\ frame' = [frame EXCEPT ![t].op = op, ![t].uuid = uuid]
    /\ UNCHANGED <<last, busVars, advVars, gattVars>>
    /\ UNCHANGED notifVars

\* The characteristics whose value closure is registered with the platform
\* once the transport has answered op on uuid with res.
handlers_after(handlers, op, uuid, res) ==
    IF res # "Ok" THEN handlers
    ELSE IF op = "subscribe" THEN handlers \cup {uuid}
    ELSE IF op = "unsubscribe" THEN handlers \ {uuid}
    ELSE handlers

gatt_op(t) ==
    /\ pc[t] = "gatt"
    /\ IF reaches_transport(frame[t].uuid)
       THEN \E res \in TransportResults :
              /\ Return(t, RetGatt(frame[t].op, res, "none", TRUE))
              /\ value_handlers' =
                   handlers_after(value_handlers, frame[t].op, frame[t].uuid, res)
       ELSE /\ Return(t, RetGatt(frame[t].op, "NotSupported",
                                 not_supported_name(frame[t].op), FALSE))
            /\ UNCHANGED value_handlers
    /\ UNCHANGED <<busVars, advVars, gattVars>>
    /\ UNCHANGED <<notif_sent, rx>>

\* ------------------------------------------------------ value notifications
\* broadcast::channel(16) keeps the 16 most recent values.
NotificationCapacity == 16

\* The publication index of the oldest value the channel still holds.
oldest_retained(sent) ==
    IF sent > NotificationCapacity THEN sent - NotificationCapacity + 1 ELSE 1

\* What a receiver waiting for value `next` is given: a receiver that fell
\* behind gets Lagged and is moved to the oldest value retained, the stream
\* drops the error and goes on with that value.
recv_position(next, sent) ==
    IF next < oldest_retained(sent) THEN oldest_retained(sent) ELSE next

\* The closure registered by subscribe runs for a new value of uuid:
\* notifications_sender.send(notification), the result ignored.
value_changed(uuid) ==
    /\ uuid \in value_handlers
    /\ notif_sent < MaxNotifications
    /\ notif_sent' = notif_sent + 1
    /\ UNCHANGED <<threadVars, busVars, advVars, gattVars,
                   value_handlers, rx>>

\* notifications(): notifications_channel.subscribe(), a receiver that
\* starts after the values sent so far.
notifications(t) ==
    /\ pc[t] = "idle"
    /\ \E r \in NotifReaders :
         /\ ~rx[r].alive
         /\ \A r2 \in NotifReaders : (r2 < r) => rx[r2].alive
         /\ rx' = [rx EXCEPT ![r] = [alive |-> TRUE, next |-> notif_sent + 1,
                                     got |-> notif_sent]]
    /\ last' = Ret("notifications", "Ok", "none")
    /\ UNCHANGED <<pc, frame, busVars, advVars, gattVars,
                   value_handlers, notif_sent>>

\* A reader polls its stream and is given a value.
notification_next(r) ==
    /\ rx[r].alive
    /\ rx[r].next <= notif_sent
    /\ rx' = [rx EXCEPT ![r].got = recv_position(rx[r].next, notif_sent),
                        ![r].next = recv_position(rx[r].next, notif_sent) + 1]
    /\ UNCHANGED <<threadVars, busVars, advVars, gattVars,
                   value_handlers, notif_sent>>

\* A reader drops its stream.
notification_drop(r) ==
    /\ rx[r].alive
    /\ rx' = [rx EXCEPT ![r] = NoReader]
    /\ UNCHANGED <<threadVars, busVars, advVars, gattVars,
                   value_handlers, notif_sent>>

\* ------------------------------------------------------------ the registry
\* Threads register peripherals and emit events; nobody has asked for the
\* receiver, which stays in the manager.
NextRegistry ==
    \/ \E t \in Threads, ev \in DirectEvents : emit_call(t, ev)
    \/ \E t \in Threads : emit_remove(t)
    \/ \E t \in Threads : emit_send(t)
    \/ \E t \in Threads : emit_broadcast(t)
    \/ \E t \in Threads : add_peripheral_call(t)
    \/ \E t \in Threads : add_peripheral_assert(t)
    \/ \E t \in Threads : add_peripheral_insert(t)

SpecRegistry == Init /\ [][NextRegistry]_vars

\* ----------------------------------------------------------- the event bus
\* Threads emit events while consumers obtain, drain and drop the receiver
\* and the broadcast streams.
BusEvents ==
    { CentralEvent("DeviceDiscovered", "a1", <<>>),
      CentralEvent("DeviceLost", "a2", <<>>) }

NextBus ==
    \/ \E t \in Threads, ev \in BusEvents : emit_call(t, ev)
    \/ \E t \in Threads : emit_remove(t)
    \/ \E t \in Threads : emit_send(t)
    \/ \E t \in Threads : emit_broadcast(t)
    \/ \E t \in Threads : event_receiver(t)
    \/ receiver_recv
    \/ receiver_drop
    \/ \E t \in Threads : event_stream(t)
    \/ \E s \in StreamIds : stream_next(s)
    \/ \E s \in StreamIds : stream_drop(s)

SpecBus == Init /\ [][NextBus]_vars

\* ------------------------------------------------ advertisement processing
\* Threads hand advertisement reports of the device to update_properties of
\* p1; the receiver stays in the manager.
NextAdv ==
    \/ \E t \in Threads : update_properties_call(t)
    \/ \E t \in Threads : up_local_name(t)
    \/ \E t \in Threads : up_manufacturer_data(t)
    \/ \E t \in Threads : up_manufacturer_data_end(t)
    \/ \E t \in Threads : up_service_data(t)
    \/ \E t \in Threads : up_service_data_end(t)
    \/ \E t \in Threads : up_services_read(t)
    \/ \E t \in Threads : up_services_write(t)
    \/ \E t \in Threads : up_services_end(t)
    \/ \E t \in Threads : up_tx_power(t)
    \/ \E t \in Threads : emit_remove(t)
    \/ \E t \in Threads : emit_send(t)
    \/ \E t \in Threads : emit_broadcast(t)

SpecAdv == Init /\ [][NextAdv]_vars

\* ------------------------------------------- properties() beside the scanner
\* The scanner thread hands reports to update_properties one after another
\* while another thread asks for properties().
Scanner == "t1"
Reader == "t2"

NextProps ==
    \/ update_properties_call(Scanner)
    \/ up_local_name(Scanner)
    \/ up_manufacturer_data(Scanner)
    \/ up_manufacturer_data_end(Scanner)
    \/ up_service_data(Scanner)
    \/ up_service_data_end(Scanner)
    \/ up_services_read(Scanner)
    \/ up_services_write(Scanner)
    \/ up_services_end(Scanner)
    \/ up_tx_power(Scanner)
    \/ emit_remove(Scanner)
    \/ emit_send(Scanner)
    \/ emit_broadcast(Scanner)
    \/ properties_call(Reader)
    \/ pr_local_name(Reader)
    \/ pr_tx_power_level(Reader)
    \/ pr_manufacturer_data(Reader)
    \/ pr_service_data(Reader)
    \/ pr_services(Reader)
    \/ pr_discovery_count(Reader)

SpecProps == Init /\ [][NextProps]_vars

\* ------------------------------------------------------ connection and GATT
NextGatt ==
    \/ \E t \in Threads : connect_call(t)
    \/ \E t \in Threads : connect_new(t)
    \/ \E t \in Threads : connect_connect(t)
    \/ \E t \in Threads : connect_store(t)
    \/ \E t \in Threads : connect_end(t)
    \/ \E t \in Threads, c \in BOOLEAN : connection_status(t, c)
    \/ \E t \in Threads : disconnect_call(t)
    \/ \E t \in Threads : disconnect_lock(t)
    \/ \E t \in Threads : disconnect_end(t)
    \/ \E t \in Threads : discover_characteristics_call(t)
    \/ \E t \in Threads : discover_characteristics_lock(t)
    \/ \E t \in Threads : discover_characteristics_await(t)
    \/ \E t \in Threads, op \in GattOps, u \in CharUuids : gatt_call(t, op, u)
    \/ \E t \in Threads : gatt_op(t)
    \/ \E t \in Threads : emit_remove(t)
    \/ \E t \in Threads : emit_send(t)
    \/ \E t \in Threads : emit_broadcast(t)

SpecGatt == Init /\ [][NextGatt]_vars

\* -------------------------------------------- connections beside consumers
\* Threads connect and disconnect p1 while a consumer obtains the receiver,
\* drains it and drops it.
NextHangup ==
    \/ \E t \in Threads : connect_call(t)
    \/ \E t \in Threads : connect_new(t)
    \/ \E t \in Threads : connect_connect(t)
    \/ \E t \in Threads : connect_store(t)
    \/ \E t \in Threads : connect_end(t)
    \/ \E t \in Threads : disconnect_call(t)
    \/ \E t \in Threads : disconnect_lock(t)
    \/ \E t \in Threads : disconnect_end(t)
    \/ \E t \in Threads : emit_remove(t)
    \/ \E t \in Threads : emit_send(t)
    \/ \E t \in Threads : emit_broadcast(t)
    \/ \E t \in Threads : event_receiver(t)
    \/ receiver_recv
    \/ receiver_drop

SpecHangup == Init /\ [][NextHangup]_vars

\* ----------------------------------------------------- value notifications
\* One thread connects p1, discovers its characteristics and subscribes to
\* c1; the device then publishes values while another thread opens
\* notification streams, which are polled and dropped.
Subscriber == "t1"

NextNotify ==
    \/ connect_call(Subscriber)
    \/ connect_new(Subscriber)
    \/ connect_connect(Subscriber)
    \/ connect_store(Subscriber)
    \/ connect_end(Subscriber)
    \/ emit_remove(Subscriber)
    \/ emit_send(Subscriber)
    \/ emit_broadcast(Subscriber)
    \/ discover_characteristics_call(Subscriber)
    \/ discover_characteristics_lock(Subscriber)
    \/ discover_characteristics_await(Subscriber)
    \/ gatt_call(Subscriber, "subscribe", "c1")
    \/ gatt_op(Subscriber)
    \/ \E u \in CharUuids : value_changed(u)
    \/ notifications(Reader)
    \/ \E r \in NotifReaders : notification_next(r)
    \/ \E r \in NotifReaders : notification_drop(r)

SpecNotify == Init /\ [][NextNotify]_vars

\* ------------------------------------------------ a handle and the registry
\* One thread holds the handle of the peripheral at a1 and disconnects and
\* connects it; another registers peripherals.
Registrar == "t2"

NextStale ==
    \/ add_peripheral_call(Registrar)
    \/ add_peripheral_assert(Registrar)
    \/ add_peripheral_insert(Registrar)
    \/ connect_call(Subscriber)
    \/ connect_new(Subscriber)
    \/ connect_connect(Subscriber)
    \/ connect_store(Subscriber)
    \/ connect_end(Subscriber)
    \/ disconnect_call(Subscriber)
    \/ disconnect_lock(Subscriber)
    \/ disconnect_end(Subscriber)
    \/ emit_remove(Subscriber)
    \/ emit_send(Subscriber)
    \/ emit_broadcast(Subscriber)

SpecStale == Init /\ [][NextStale]_vars

\* ------------------------------------------------- emits beside each other
\* Subscribers open their streams before any emit is made; threads then
\* emit, and nobody takes an event off a queue.
NextOrder ==
    \/ /\ chan = <<>>
       /\ \A t \in Threads : pc[t] = "idle"
       /\ \E t \in Threads : event_stream(t)
    \/ \E t \in Threads, ev \in BusEvents : emit_call(t, ev)
    \/ \E t \in Threads : emit_remove(t)
    \/ \E t \in Threads : emit_send(t)
    \/ \E t \in Threads : emit_broadcast(t)

SpecOrder == Init /\ [][NextOrder]_vars

\* ------------------------------------- advertisement events at subscribers
\* Threads hand reports to update_properties of p1; subscribers open
\* broadcast streams before, between and after the reports; nobody takes an
\* event off a queue, so each queue is what its consumer is delivered, in
\* order.
NextServices ==
    \/ NextAdv
    \/ /\ \A t \in Threads : pc[t] = "idle"
       /\ \E t \in Threads : event_stream(t)

SpecServices == Init /\ [][NextServices]_vars

\* The event bus with the scheduler running every thread that is inside
\* emit; consumers and callers are under no obligation.
FairSpecBus ==
    /\ SpecBus
    /\ \A t \in Threads :
         /\ WF_vars(emit_remove(t))
         /\ WF_vars(emit_send(t))
         /\ WF_vars(emit_broadcast(t))

\* ================================================================== claims
InUpdate(t) == frame[t].op = "update_properties"

EventsOfType(queue, ty) == {i \in 1..Len(queue) : queue[i].type = ty}

\* C1: in every state of every interleaving of update_properties calls, the
\* stored services set is the union of the service-UUID lists of the reports
\* whose services section has been processed; merged_lists only grows, so no
\* call removes a UUID.
C1_ServicesAreUnion == services = merged_lists

\* Two reports, one list each, merged by two calls that both emitted.
C1_Witness ==
    /\ services = {to_uuid(HeartRate), to_uuid(Battery)}
    /\ reports_done = 2
    /\ Cardinality(EventsOfType(chan, "ServicesAdvertisement")) = 2

\* C2: discovery_count counts every update_properties call: the calls that
\* have returned plus those in progress, whatever the reports held.
C2_CountsEveryReport ==
    discovery_count = reports_done + Cardinality({t \in Threads : InUpdate(t)})

\* Two reports that changed no field and emitted nothing were counted.
C2_Witness ==
    /\ discovery_count = 2
    /\ reports_done = 2
    /\ chan = <<>>
    /\ local_name = None
    /\ services = {}
    /\ latest_manufacturer_data = <<>>
    /\ last_tx_power_level = Nothing

\* C3: the stored manufacturer data is the value of the most recent report
\* that carried manufacturer data; a report with an empty list leaves it.
C3_EmptyListLeavesData == latest_manufacturer_data = carried_manufacturer_data

\* C4: add_peripheral panics at its assertions, the table untouched, exactly
\* when the address is present or the peripheral reports another address;
\* otherwise it goes on to insert the peripheral under that address, every
\* other entry unchanged.
C4_AddPeripheral ==
    [][\A t \in Threads :
         /\ (pc[t] = "add_assert" /\ pc'[t] # "add_assert") =>
              /\ peripherals' = peripherals
              /\ IF peripherals[frame[t].addr] # None
                    \/ address(frame[t].p) # frame[t].addr
                 THEN pc'[t] = "idle" /\ last' = Ret("add_peripheral", "panic", "none")
                 ELSE pc'[t] = "add_insert"
         /\ (pc[t] = "add_insert" /\ pc'[t] # "add_insert") =>
              /\ peripherals' = [peripherals EXCEPT ![frame[t].addr] = frame[t].p]
              /\ last' = Ret("add_peripheral", "ok", "none")
      ]_vars

\* Both addresses registered, and a further add_peripheral has failed.
C4_Witness ==
    /\ last = Ret("add_peripheral", "panic", "none")
    /\ peripherals["a1"] = "p1"
    /\ peripherals["a2"] = "p2"

\* C5: once event_receiver has been called, exactly one call has returned the
\* receiver, and it was the first: the slot is empty ever after.
C5_ReceiverHandedOutOnce ==
    /\ receivers_returned = (IF receiver_called THEN 1 ELSE 0)
    /\ receiver_called <=> event_receiver_slot = "None"
    /\ (last.op = "event_receiver" /\ last.val = "Some") => receivers_returned = 1

\* A later call returned None.
C5_Witness ==
    /\ receivers_returned = 1
    /\ last = Ret("event_receiver", "None", "none")

\* C6: the first step of emit removes the address of a DeviceDisconnected or
\* DeviceLost event and nothing else, and it comes before the send; an
\* address evicted this way stays absent until add_peripheral inserts it; no
\* other step of emit, and no emit of another event, changes the table.
C6_EmitEvicts ==
    [][/\ \A t \in Threads :
            /\ (pc[t] = "emit_remove" /\ pc'[t] # "emit_remove") =>
                 /\ pc'[t] = "emit_send"
                 /\ chan' = chan
                 /\ peripherals' =
                      IF frame[t].ev.type \in {"DeviceDisconnected", "DeviceLost"}
                      THEN [peripherals EXCEPT ![frame[t].ev.address] = None]
                      ELSE peripherals
            /\ (pc[t] \in {"emit_send", "emit_broadcast"} /\ pc'[t] # pc[t]) =>
                 peripherals' = peripherals
       /\ \A a \in Addrs :
            /\ (a \in evicted') => (peripheral(a)' = None /\ ~has_peripheral(a)')
            /\ (peripherals[a] = None /\ peripherals'[a] # None) =>
                 \E t \in Threads : pc[t] = "add_insert" /\ frame[t].addr = a
      ]_vars

\* An emit has returned, a registered address is gone and the other entry is
\* still there.
C6_Witness ==
    /\ last = Ret("emit", "ok", "none")
    /\ "a1" \in evicted
    /\ ~has_peripheral("a1")
    /\ peripheral("a2") = "p2"

\* C7: with no device handle held, read, write, subscribe, unsubscribe and
\* discover_characteristics all return NotConnected.
C7_NotConnectedWithoutDevice ==
    [][\A t \in Threads :
         (/\ pc[t] \in {"gatt", "discover"}
          /\ pc'[t] = "idle"
          /\ device = Nothing) => last'.val = "NotConnected"
      ]_vars

\* C8: read, write, subscribe and unsubscribe of a characteristic that is not
\* cached return NotSupported with their own name, without reaching the
\* transport, and change nothing of the peripheral or the manager.
C8_NotSupportedNamesTheOperation ==
    [][\A t \in Threads :
         (/\ pc[t] = "gatt"
          /\ pc'[t] = "idle"
          /\ frame[t].uuid \notin DOMAIN ble_characteristics) =>
             /\ last' = RetGatt(frame[t].op, "NotSupported", frame[t].op, FALSE)
             /\ UNCHANGED <<gattVars, advVars, busVars>>
      ]_vars

\* unsubscribe of an uncached characteristic, on a connected peripheral whose
\* cache holds another one.
C8_Witness ==
    /\ last = RetGatt("unsubscribe", "NotSupported", "unsubscribe", FALSE)
    /\ DOMAIN ble_characteristics = {"c1"}
    /\ device # Nothing

InEmit(t) == pc[t] \in {"emit_remove", "emit_send", "emit_broadcast"}

\* C9: every emit that has begun comes to its end, whether or not the
\* receiver or any broadcast subscriber ever takes an event off its queue.
C9_EmitNeverWaits == \A t \in Threads : InEmit(t) ~> ~InEmit(t)

\* An emit has returned while the receiver's queue and a subscriber's queue
\* each hold MaxQueue events that no consumer has taken yet.
C9_Witness ==
    /\ last = Ret("emit", "ok", "none")
    /\ Len(chan) = MaxQueue
    /\ \E s \in StreamIds : streamAlive[s] /\ Len(streamQ[s]) = MaxQueue

\* C10: no emit fails, whatever became of the receiver.
C10_EmitNeverFails == ~(last.op = "emit" /\ last.val = "panic")

\* C11: the snapshot a properties() call returns is one of the states the
\* peripheral was in between reports while the call ran: it never joins
\* field values from before a report with values from after it. (Stated for
\* the calls that return while no report is being processed.)
C11_SnapshotIsWhole ==
    [][(pc[Reader] = "pr_count" /\ pc'[Reader] = "idle" /\ pc[Scanner] = "idle") =>
         \E i \in 1..Len(frame[Reader].seen) :
             frame[Reader].seen[i] = properties_result(Reader)
      ]_vars

\* C12: within one update_properties call each category's section runs once,
\* and it requests an event only when it changed the stored value of its
\* category.
C12_EventOnlyForChange ==
    [][\A t \in Threads :
         /\ (pc[t] = "up_mfr" /\ pc'[t] = "emit_remove") =>
              latest_manufacturer_data' # latest_manufacturer_data
         /\ (pc[t] = "up_sd" /\ pc'[t] = "emit_remove") =>
              latest_service_data' # latest_service_data
         /\ (pc[t] = "up_svc_write" /\ pc'[t] = "emit_remove") =>
              services' # services
         /\ (pc[t] = "up_mfr_end") => pc'[t] \in {"up_mfr_end", "up_sd"}
         /\ (pc[t] = "up_sd_end") => pc'[t] \in {"up_sd_end", "up_svc"}
         /\ (pc[t] = "up_svc_end") => pc'[t] \in {"up_svc_end", "up_tx"}
      ]_vars

\* C20: a report leaves the stored tx power level as it was unless it
\* carries a reading, and then it stores that reading.
C20_TxPowerKept ==
    [][\A t \in Threads :
         (pc[t] = "up_tx" /\ pc'[t] = "idle") =>
             \/ last_tx_power_level' = last_tx_power_level
             \/ last_tx_power_level' # Nothing
      ]_vars

\* C13: a connect() that fails at device creation or at the transport
\* connect has emitted no DeviceConnected, leaves the stored device handle
\* as it was, and leaves the peripheral disconnected (is_connected() false).
C13_FailedConnectLeavesDisconnected ==
    [][\A t \in Threads :
         (pc[t] \in {"connect_new", "connect_connect"} /\ pc'[t] = "idle") =>
             /\ last'.op = "connect" /\ last'.val # "Ok"
             /\ chan' = chan
             /\ device' = device
             /\ ~connected'
      ]_vars

\* C14: every disconnect() call sends one DeviceDisconnected for the
\* peripheral's address and returns Ok with the device handle absent, in
\* whatever state it was called; it changes neither the characteristic cache
\* nor, once the address is out of the registry, the registry.
C14_DisconnectAlwaysSucceeds ==
    [][\A t \in Threads :
         (frame[t].op = "disconnect") =>
             /\ (pc[t] = "emit_send" /\ pc'[t] # "emit_send") =>
                  chan' = Append(chan, CentralEvent("DeviceDisconnected", "a1", <<>>))
             /\ (pc'[t] = "idle") =>
                  /\ last' = Ret("disconnect", "Ok", "none")
                  /\ device' = Nothing
             /\ (pc'[t] # pc[t]) =>
                  /\ ble_characteristics' = ble_characteristics
                  /\ (peripherals["a1"] = None) => peripherals' = peripherals
      ]_vars

\* C15: every value published after a notifications() call and not yet
\* yielded by its stream is still held for it by the channel, however many
\* values are outstanding: the stream can go on to yield each of them, once
\* and in publication order.
C15_EveryValueKeptForReader ==
    \A r \in NotifReaders :
        rx[r].alive => rx[r].next >= oldest_retained(notif_sent)

\* C16: a cached characteristic is never removed nor replaced, by any
\* operation; the cache changes only when discover_characteristics returns,
\* and then only by entries for UUIDs that were not cached.
C16_CacheFirstWins ==
    [][/\ \A u \in DOMAIN ble_characteristics :
            /\ u \in DOMAIN ble_characteristics'
            /\ ble_characteristics'[u] = ble_characteristics[u]
       /\ (DOMAIN ble_characteristics' # DOMAIN ble_characteristics) =>
            \E t \in Threads : pc[t] = "discover_await" /\ pc'[t] = "idle"
      ]_vars

\* A second discovery has met c1 again under a new object and kept the
\* first; the peripheral has since been disconnected, the cache kept.
C16_Witness ==
    /\ DOMAIN ble_characteristics = {"c1", "c2"}
    /\ ble_characteristics["c1"] = "g1"
    /\ ble_characteristics["c2"] = "g2"
    /\ device = Nothing
    /\ last = Ret("disconnect", "Ok", "none")

\* C17: the broadcast step of emit leaves in the subscriber list no
\* subscriber whose receiving end is gone, keeps every subscriber whose
\* receiving end is alive and has put the event in its queue; no step of any
\* operation removes a subscriber whose receiving end is alive.
C17_BroadcastPrunes ==
    [][/\ \A t \in Threads :
            (pc[t] = "emit_broadcast" /\ pc'[t] # "emit_broadcast") =>
                /\ \A s \in StreamIds :
                     InSeq(s, async_senders') => streamAlive[s]
                /\ \A s \in StreamIds :
                     (InSeq(s, async_senders) /\ streamAlive[s]) =>
                         streamQ'[s] = Append(streamQ[s], frame[t].ev)
       /\ \A s \in StreamIds :
            (InSeq(s, async_senders) /\ streamAlive[s]) => InSeq(s, async_senders')
      ]_vars

\* An emit has returned: the first subscriber, dropped, is out of the list,
\* the second, alive, is in it and holds an event.
C17_Witness ==
    /\ last = Ret("emit", "ok", "none")
    /\ ~streamAlive[1] /\ ~InSeq(1, async_senders)
    /\ streamAlive[2] /\ InSeq(2, async_senders)
    /\ streamQ[2] # <<>>

\* C18: while the address of the peripheral is evicted from the registry, a
\* connect() through the handle held since before the eviction does not
\* succeed, and no step of it puts the address back.
C18_StaleHandleFails ==
    [][("a1" \in evicted /\ frame[Subscriber].op = "connect") =>
          /\ (pc[Subscriber] # "idle" /\ pc'[Subscriber] = "idle") =>
                last'.val # "Ok"
          /\ (pc'[Subscriber] # pc[Subscriber]) => peripherals'["a1"] = None
      ]_vars

\* C19: of the add_peripheral calls that race for one address one inserts
\* and the others panic: the insert of add_peripheral never writes over an
\* entry that is there.
C19_InsertNeverOverwrites ==
    [][\A t \in Threads :
         (pc[t] = "add_insert" /\ pc'[t] = "idle") =>
             peripherals[frame[t].addr] = None
      ]_vars

\* C21: once every emit begun has returned, the receiver and each broadcast
\* subscriber that was registered before the emits hold the same events in
\* the same order: none lost, none reordered.
C21_SameOrderForEveryConsumer ==
    (\A t \in Threads : ~InEmit(t)) =>
        \A s \in StreamIds :
            (streamAlive[s] /\ InSeq(s, async_senders)) => streamQ[s] = chan

\* C22: is_connected() answers false whenever the peripheral holds no device:
\* none stored in the handle, none being set up by a connect() in progress.
C22_ConnectedOnlyWithDevice ==
    (LiveDevices = {}) => ~connected

\* The ServicesAdvertisement payloads of a consumer's queue grow along it.
PayloadsGrow(queue) ==
    \A i \in 1..Len(queue), j \in 1..Len(queue) :
        (/\ i < j
         /\ queue[i].type = "ServicesAdvertisement"
         /\ queue[j].type = "ServicesAdvertisement") =>
            queue[i].data \subseteq queue[j].data

\* C23: every ServicesAdvertisement is requested with the services set as
\* stored at that moment for payload, and at the receiver and at every
\* broadcast subscriber each such event carries a superset of the payloads
\* delivered there before it.
C23_ServicesPayloadsGrow ==
    [][/\ \A t \in Threads :
            (pc[t] = "up_svc_write" /\ pc'[t] = "emit_remove") =>
                frame'[t].ev.data = services'
       /\ PayloadsGrow(chan')
       /\ \A s \in StreamIds : PayloadsGrow(streamQ'[s])
      ]_vars

\* Two reports have each added a service: the receiver and the first
\* subscriber hold both events, the second payload the larger.
C23_Witness ==
    /\ discovery_count = 2
    /\ \E i, j \in 1..Len(chan) :
         /\ i < j
         /\ chan[i].type = "ServicesAdvertisement"
         /\ chan[j].type = "ServicesAdvertisement"
         /\ chan[i].data # chan[j].data
    /\ \E i, j \in 1..Len(streamQ[1]) :
         /\ i < j
         /\ streamQ[1][i].type = "ServicesAdvertisement"
         /\ streamQ[1][j].type = "ServicesAdvertisement"
         /\ streamQ[1][i].data # streamQ[1][j].data

====
